---- MODULE Spec2Model ----
(***************************************************************************)
(* Model of the interview session state machine of the AI mock interviewer *)
(* (app/api/routes/*.py, app/dependencies.py, app/core/interview_engine.py,*)
(* app/services/ai_service.py).                                            *)
(*                                                                         *)
(* A session is the dictionary kept in dependencies.session_storage.  Each *)
(* route handler is one action; the handler's HTTP outcome and the locals  *)
(* it acted on are recorded in lastCall.  The keys upload_time of a session *)
(* and timestamp of a response entry are left out: no handler decides on   *)
(* them.                                                                   *)
(*                                                                         *)
(* Two callees of the route handlers are not defined anywhere in the       *)
(* sources: InterviewEngine.generate_questions (called by start_interview) *)
(* and AIService.analyze_response (called by submit_response).  They are   *)
(* modelled as the QuestionSource / ResponseEvaluator capabilities of the  *)
(* specification: an outcome drawn from a small set, one of which is that  *)
(* the call raises (which is what an undefined method does).               *)
(***************************************************************************)
EXTENDS Integers, Sequences, FiniteSets, TLC

\* ---------------------------------------------------------------- bounds
SessionIds == {"s1"}
MaxQuestions == 2          \* largest initial question batch
MaxResponses == 2          \* cap on stored responses per session
MaxTime == 2               \* largest clock reading

\* None for a timestamp
None == 0

\* config.py: Settings.MIN_QUESTIONS, Settings.MAX_QUESTIONS
MIN_QUESTIONS == 5
MAX_QUESTIONS == 15

\* word counts of the response texts given to the engine and the AI service
\* (0: empty after trimming; 20 and 21: either side of the fallback threshold)
WordCounts == {0, 20, 21}

\* word counts of the response texts submitted to the routes
SubmittedWordCounts == {0, 21}

\* scores an AI evaluation may carry
AIScores == {9}

Preferences == {"default", "custom"}

\* initialized: history of the run, the session ids on which a start_interview
\* has taken effect (never reset; read by no handler)
\* inflight: for each request slot, the position and the local variables of a
\* submit_response coroutine suspended at its await of the evaluator
VARIABLES session_storage, now, lastCall, initialized, inflight

vars == <<session_storage, now, lastCall, initialized, inflight>>

\* request slots: two submit_response requests may be in flight at once
Turns == {"t1", "t2"}

\* ------------------------------------------------------- dependencies.py
create_session_storage ==
    [resume_data |-> FALSE,
     skills_analysis |-> FALSE,
     questions |-> <<>>,
     responses |-> <<>>,
     current_question_index |-> 0,
     interview_started |-> FALSE,
     interview_ended |-> FALSE,
     start_time |-> None,
     end_time |-> None,
     \* keys that are absent from a fresh dictionary
     file_path |-> FALSE,
     interview_preferences |-> "None",
     ai_greeting |-> "None",
     report |-> FALSE,
     report_generated_at |-> None]

get_session_forgets_others(store, sid) ==
    sid :> (IF sid \in DOMAIN store THEN store[sid] ELSE create_session_storage)

\* the store after get_session(sid): get or create
get_session(store, sid) ==
    IF sid \in DOMAIN store THEN store
    ELSE store @@ (sid :> create_session_storage)

\* ----------------------------------------------------- results of a call
\* a question: n stands for its text and generated_by is its 'generated_by'
\* key ("None": key absent); source records which producer built it (the AI,
\* AIService._fallback_questions or the emergency list) and is no key of the
\* dictionary
Question(source, n, generated_by) ==
    [source |-> source, n |-> n, generated_by |-> generated_by]

\* None where a question is expected
NoQuestion == Question("None", 0, "None")

\* raw_source: the fallback marker of an evaluation ("None": key absent)
NoAnalysis ==
    [score |-> 0, needs_followup |-> FALSE, followup_question |-> "None",
     raw_source |-> "None"]
NoSummary == [questions_answered |-> 0, duration_minutes |-> 0, completion_time |-> None]

\* a float that is the quotient of two integers, kept as the quotient num / den
Ratio(num, den) == [num |-> num, den |-> den]

\* an IEEE-754 double near a multiple of a tenth: the value tenths / 10 +
\* err * 2^-54 / 5 (every double between 0.25 and 16 has this form with an
\* integer err)
Dbl(tenths, err) == [tenths |-> tenths, err |-> err]

NoScore ==
    [numerical_score |-> 0, grade |-> "none", performance_level |-> "none",
     score_breakdown |-> [technical |-> 0, communication |-> 0, problem_solving |-> 0]]

NoProgress ==
    [total_questions |-> 0, questions_answered |-> 0, current_question_number |-> 0,
     completion_percentage |-> Ratio(0, 1), questions_remaining |-> 0]

Result(op, sid, status, type) ==
    [op |-> op, sid |-> sid, status |-> status, type |-> type,
     question |-> 0, words |-> 0, evaluator |-> "none", analysis |-> NoAnalysis,
     summary |-> NoSummary, decision |-> "none", action |-> "none",
     generation |-> "none", questions |-> <<>>, greeting |-> "None",
     progress |-> NoProgress, score |-> NoScore, input |-> <<>>,
     current_index |-> 0, scores |-> <<>>, adaptation |-> "none",
     returned |-> NoQuestion, question_count |-> 0]

\* -------------------------------------------------------- ai_service.py
\* AIService._fallback_response_analysis: len(response.split()) > 20
_fallback_response_analysis(words) ==
    [score |-> IF words > 20 THEN 6 ELSE 4,
     needs_followup |-> FALSE,
     followup_question |-> "None",
     raw_source |-> "None"]

\* outcomes of the response evaluator called by submit_response
EvaluatorOutcomes ==
    [kind : {"ai"}, score : AIScores, needs_followup : BOOLEAN,
     followup_question : {"None", "fq"}]
    \cup [kind : {"fallback", "raise"}, score : {0}, needs_followup : {FALSE},
          followup_question : {"None"}]

analyze_response(ev, words) ==
    IF ev.kind = "fallback" THEN _fallback_response_analysis(words)
    ELSE [score |-> ev.score, needs_followup |-> ev.needs_followup,
          followup_question |-> ev.followup_question,
          raw_source |-> "None"]

\* outcomes of AIService.determine_next_interview_action: the AI's decision
\* (any action tag, "unknown" for a missing or unrecognised one), the
\* fallback of its except branch, or an exception raised before its try
AIActions == {"next_question", "followup_question", "end_interview",
              "adapt_difficulty", "unknown"}

DecisionOutcomes ==
    [kind : {"ai"}, action : AIActions]
    \cup [kind : {"fallback", "raise"}, action : {"next_question"}]

\* ---------------------------------------------- core/interview_engine.py
\* InterviewEngine.process_response: ev is the outcome of
\* analyze_candidate_response ("fallback": the failure is absorbed by the AI
\* service; "raise": it raises before its try block), dec the outcome of
\* determine_next_interview_action
ProcessResponse(ev, dec, words) ==
    IF ev.kind = "raise" \/ dec.kind = "raise"
    THEN [response_analysis |-> [score |-> 5, needs_followup |-> FALSE,
                                 followup_question |-> "None",
                                 raw_source |-> "None"],
          next_action |-> "next_question",
          error |-> TRUE]
    ELSE [response_analysis |-> analyze_response(ev, words),
          next_action |-> dec.action,
          error |-> FALSE]

process_response(words, ev, dec) ==
    LET r == ProcessResponse(ev, dec, words)
    IN /\ UNCHANGED <<session_storage, now, initialized, inflight>>
       /\ lastCall' = [Result("process_response", "none", 200,
                              IF r.error THEN "engine_fallback" ELSE "processed")
                         EXCEPT !.evaluator = ev.kind,
                                !.words = words,
                                !.analysis = r.response_analysis,
                                !.decision = dec.kind,
                                !.action = r.next_action]

_calculate_progress_by_cursor(session_data) ==
    LET total_questions == Len(session_data.questions)
        questions_answered == session_data.current_question_index
    IN [total_questions |-> total_questions,
        questions_answered |-> questions_answered,
        current_question_number |-> session_data.current_question_index + 1,
        completion_percentage |->
            IF total_questions > 0
            THEN Ratio(questions_answered * 100, total_questions)
            ELSE Ratio(0, 1),
        questions_remaining |->
            IF total_questions - questions_answered > 0
            THEN total_questions - questions_answered ELSE 0]

\* InterviewEngine._calculate_progress; completion_percentage is the float
\* questions_answered / total_questions * 100, kept as the quotient it
\* approximates (exact for 0 and for questions_answered = total_questions)
_calculate_progress(session_data) ==
    LET total_questions == Len(session_data.questions)
        questions_answered == Len(session_data.responses)
    IN [total_questions |-> total_questions,
        questions_answered |-> questions_answered,
        current_question_number |-> session_data.current_question_index + 1,
        completion_percentage |->
            IF total_questions > 0
            THEN Ratio(questions_answered * 100, total_questions)
            ELSE Ratio(0, 1),
        questions_remaining |->
            IF total_questions - questions_answered > 0
            THEN total_questions - questions_answered ELSE 0]

\* the engine computes the progress of the stored session sid
calculate_progress(sid) ==
    /\ sid \in DOMAIN session_storage
    /\ UNCHANGED <<session_storage, now, initialized, inflight>>
    /\ lastCall' = [Result("_calculate_progress", sid, 200, "progress")
                      EXCEPT !.progress = _calculate_progress(session_storage[sid])]

\* AIService._fallback_questions: the three base questions, cut to count when
\* count <= 3, else repeated count // 3 + 1 times
base_questions == [i \in 1..3 |-> Question("fallback", i, "None")]

_fallback_questions(count) ==
    IF count <= Len(base_questions)
    THEN SubSeq(base_questions, 1, count)
    ELSE [i \in 1..(Len(base_questions) * ((count \div Len(base_questions)) + 1))
            |-> base_questions[((i - 1) % Len(base_questions)) + 1]]

\* QuestionBank._emergency_fallback_questions: three hardcoded questions
_emergency_fallback_questions == [i \in 1..3 |-> Question("emergency", i, "fallback")]

\* question counts an AI interview plan may ask for
PlanQuestionCounts == 1..MAX_QUESTIONS

\* outcomes of AIService.create_interview_plan: the AI's plan, the fallback
\* plan of its except branch (question_count 8), or an exception raised by
\* json.dumps before its try
PlanOutcomes ==
    [kind : {"ai"}, question_count : PlanQuestionCounts]
    \cup [kind : {"fallback", "raise"}, question_count : {8}]

\* QuestionBank.generate_personalized_questions: gen is the outcome of
\* AIService.generate_interview_questions ("ai": the AI returns count
\* questions; "fallback": the call fails inside its try; "raise": it raises
\* before its try, and generate_basic_interview_questions does not exist)
generate_personalized_questions(gen, count) ==
    IF gen = "ai" THEN [i \in 1..count |-> Question("ai", i, "None")]
    ELSE IF gen = "fallback" THEN _fallback_questions(count)
    ELSE _emergency_fallback_questions

\* the remaining_questions lists handed to adapt_question_difficulty
RemainingQuestions ==
    {SubSeq(Q, 1, k) : Q \in {base_questions, _emergency_fallback_questions},
                       k \in 0..3}

\* AIService.adapt_questions_to_performance: a list of adapted questions, one
\* for each remaining question
adapt_questions_to_performance(remaining_questions) ==
    [i \in 1..Len(remaining_questions) |->
        Question("adapted", remaining_questions[i].n, "None")]

adapt_question_difficulty_drops(outcome, remaining_questions) ==
    IF outcome = "raise" THEN <<>>
    ELSE adapt_questions_to_performance(remaining_questions)

\* QuestionBank.adapt_question_difficulty: outcome "raise" when the
\* adaptation call raises
adapt_question_difficulty(outcome, remaining_questions) ==
    IF outcome = "raise" THEN remaining_questions
    ELSE adapt_questions_to_performance(remaining_questions)

adapt_remaining(outcome, remaining_questions) ==
    /\ UNCHANGED <<session_storage, now, initialized, inflight>>
    /\ lastCall' = [Result("adapt_question_difficulty", "none", 200, "adapted")
                      EXCEPT !.generation = outcome,
                             !.input = remaining_questions,
                             !.questions = adapt_question_difficulty(
                                               outcome, remaining_questions)]

\* scores of the evaluations made so far in an interview, oldest first; the
\* last one is the last_response_analysis handed to get_next_question
EvaluationScores == {4, 9}

ScoreHistories ==
    {<<>>} \cup [1..1 -> EvaluationScores] \cup [1..2 -> EvaluationScores]
           \cup [1..3 -> EvaluationScores]

\* InterviewEngine.get_next_question, as <<question returned (NoQuestion for
\* None), adaptation>>: adaptation is "none" when no adaptation was asked
\* for, else the outcome of ai_service.adapt_question_based_on_performance
\* ("adapted" or "failed"); dynamic is the outcome of
\* ai_service.generate_dynamic_question
GetNextQuestion(current_index, questions, scores, adapted, dynamic) ==
    LET last_response_analysis == scores # <<>>
    IN IF current_index < Len(questions)
       THEN LET next_question == questions[current_index + 1]
            IN IF last_response_analysis
               THEN IF adapted = "adapted"
                    THEN <<Question("adapted", next_question.n, "None"), "adapted">>
                    ELSE <<NoQuestion, "failed">>
               ELSE <<next_question, "none">>
       ELSE IF dynamic = "generated"
            THEN <<Question("dynamic", current_index + 1, "None"), "none">>
            ELSE <<NoQuestion, "none">>

get_next_question(current_index, questions, scores, adapted, dynamic) ==
    LET r == GetNextQuestion(current_index, questions, scores, adapted, dynamic)
    IN /\ UNCHANGED <<session_storage, now, initialized, inflight>>
       /\ lastCall' = [Result("get_next_question", "none", 200, "question")
                         EXCEPT !.input = questions,
                                !.current_index = current_index,
                                !.scores = scores,
                                !.returned = r[1],
                                !.adaptation = r[2]]

\* InterviewEngine.initialize_interview
initialize_interview(plan, gen, greeting) ==
    /\ UNCHANGED <<session_storage, now, initialized, inflight>>
    /\ IF plan.kind = "raise"
       THEN lastCall' = Result("initialize_interview", "none", 500, "error")
       ELSE lastCall' = [Result("initialize_interview", "none", 200, "initialized")
                           EXCEPT !.generation = gen,
                                  !.questions = generate_personalized_questions(
                                                    gen, plan.question_count),
                                  !.greeting = greeting,
                                  !.question_count = plan.question_count]

\* ------------------------------------------------- routes/interview.py
\* questions generated for start_interview: n distinct questions
generate_questions(n) == [i \in 1..n |-> i]

_complete_interview_no_end_time(sd) ==
    [sd EXCEPT !.interview_ended = TRUE]

_complete_interview(sd) ==
    [sd EXCEPT !.interview_ended = TRUE, !.end_time = now]

CompletionSummary(sd) ==
    [questions_answered |-> Len(sd.responses),
     duration_minutes |-> sd.end_time - sd.start_time,
     completion_time |-> sd.end_time]

NextIndex_skip(current_index) == current_index + 2

\* next_index = current_index + 1
NextIndex(current_index) == current_index + 1

AlreadyStarted_never(sd) == FALSE

\* start_interview: session_data.get('interview_started')
AlreadyStarted(sd) == sd.interview_started

NotActive_ignores_ended(sd) == ~sd.interview_started

\* submit_response: not interview_started or interview_ended
NotActive(sd) == ~sd.interview_started \/ sd.interview_ended

\* a request slot with no coroutine in it
Idle ==
    [pc |-> "idle", sid |-> "none", current_index |-> 0, questions |-> <<>>,
     words |-> 0,
     ev |-> [kind |-> "none", score |-> 0, needs_followup |-> FALSE,
             followup_question |-> "None"]]

Init ==
    /\ session_storage = <<>>
    /\ now = 1
    /\ lastCall = Result("none", "none", 0, "none")
    /\ initialized = {}
    /\ inflight = [t \in Turns |-> Idle]

Tick ==
    /\ now < MaxTime
    /\ now' = now + 1
    /\ UNCHANGED <<session_storage, lastCall, initialized, inflight>>

start_interview(sid, prefs, gen, n, greeting) ==
    LET store == get_session(session_storage, sid)
        sd == store[sid]
        sd1 == [sd EXCEPT !.interview_preferences = prefs]
        sd2 == [sd1 EXCEPT !.interview_started = TRUE,
                           !.interview_ended = FALSE,
                           !.questions = generate_questions(n),
                           !.current_question_index = 0,
                           !.responses = <<>>,
                           !.start_time = now,
                           !.ai_greeting = greeting]
    IN /\ UNCHANGED <<now, inflight>>
       /\ IF ~sd.skills_analysis \/ AlreadyStarted(sd)
          THEN /\ session_storage' = store
               /\ lastCall' = Result("start_interview", sid, 400, "error")
               /\ UNCHANGED initialized
          ELSE IF gen = "raise"
          THEN /\ session_storage' = [store EXCEPT ![sid] = sd1]
               /\ lastCall' = [Result("start_interview", sid, 500, "error")
                                 EXCEPT !.generation = gen]
               /\ UNCHANGED initialized
          ELSE /\ session_storage' = [store EXCEPT ![sid] = sd2]
               /\ initialized' = initialized \cup {sid}
               /\ lastCall' = [Result("start_interview", sid, 200, "started")
                                 EXCEPT !.generation = gen,
                                        !.greeting = greeting]

proceed_with_interview(sid) ==
    LET store == get_session(session_storage, sid)
        sd == store[sid]
        current_index == sd.current_question_index
    IN /\ UNCHANGED <<now, initialized, inflight>>
       /\ session_storage' = store
       /\ IF ~sd.interview_started
          THEN lastCall' = Result("proceed_with_interview", sid, 400, "error")
          ELSE IF sd.questions = <<>> \/ current_index >= Len(sd.questions)
          THEN lastCall' = Result("proceed_with_interview", sid, 500, "error")
          ELSE lastCall' = [Result("proceed_with_interview", sid, 200, "question")
                              EXCEPT !.question = sd.questions[current_index + 1]]

\* cap: the largest number of responses a session may hold in the model
submit_response_upto(cap, sid, words, ev) ==
    LET store == get_session(session_storage, sid)
        sd == store[sid]
        questions == sd.questions
        current_index == sd.current_question_index
        response_entry == [question_number |-> current_index + 1,
                           question |-> questions[current_index + 1],
                           response |-> words,
                           \* no key of the record holds the evaluation
                           evaluation |-> "None"]
        sd1 == [sd EXCEPT !.responses = Append(@, response_entry)]
        analysis == analyze_response(ev, words)
        should_followup == analysis.needs_followup
        follow_up_question == analysis.followup_question
        next_index == NextIndex(current_index)
        sd2 == [sd1 EXCEPT !.current_question_index = next_index]
        sd3 == _complete_interview(sd2)
        res(status, type) == [Result("submit_response", sid, status, type)
                                EXCEPT !.evaluator = ev.kind, !.words = words]
    IN /\ UNCHANGED <<now, initialized, inflight>>
       /\ IF NotActive(sd)
          THEN /\ session_storage' = store
               /\ lastCall' = Result("submit_response", sid, 400, "error")
          ELSE IF current_index >= Len(questions)
          THEN /\ session_storage' = store
               /\ lastCall' = Result("submit_response", sid, 400, "error")
          ELSE /\ Len(sd.responses) < cap
               /\ IF ev.kind = "raise"
                  THEN /\ session_storage' = [store EXCEPT ![sid] = sd1]
                       /\ lastCall' = res(500, "error")
                  ELSE IF should_followup /\ follow_up_question # "None"
                  THEN /\ session_storage' = [store EXCEPT ![sid] = sd1]
                       /\ lastCall' = [res(200, "followup")
                                         EXCEPT !.question = current_index + 1,
                                                !.analysis = analysis]
                  ELSE IF next_index >= Len(questions)
                  THEN /\ session_storage' = [store EXCEPT ![sid] = sd3]
                       /\ lastCall' = [res(200, "interview_complete")
                                         EXCEPT !.analysis = analysis,
                                                !.summary = CompletionSummary(sd3)]
                  ELSE /\ session_storage' = [store EXCEPT ![sid] = sd2]
                       /\ lastCall' = [res(200, "next_question")
                                         EXCEPT !.analysis = analysis,
                                                !.question = questions[next_index + 1]]

submit_response(sid, words, ev) ==
    submit_response_upto(MaxResponses, sid, words, ev)

\* submit_response as the event loop runs it, in two parts. First part: from
\* the entry of the handler to its await of the evaluator; the response is
\* already appended when the coroutine suspends, and current_index and
\* questions are its local variables.
submit_begin(turn, sid, words) ==
    LET store == get_session(session_storage, sid)
        sd == store[sid]
        questions == sd.questions
        current_index == sd.current_question_index
        response_entry == [question_number |-> current_index + 1,
                           question |-> questions[current_index + 1],
                           response |-> words,
                           \* no key of the record holds the evaluation
                           evaluation |-> "None"]
        sd1 == [sd EXCEPT !.responses = Append(@, response_entry)]
    IN /\ inflight[turn].pc = "idle"
       /\ UNCHANGED <<now, initialized>>
       /\ IF NotActive(sd) \/ current_index >= Len(questions)
          THEN /\ session_storage' = store
               /\ lastCall' = Result("submit_response", sid, 400, "error")
               /\ UNCHANGED inflight
          ELSE /\ Len(sd.responses) < MaxResponses
               /\ session_storage' = [store EXCEPT ![sid] = sd1]
               /\ inflight' = [inflight EXCEPT ![turn] =
                                  [Idle EXCEPT !.pc = "awaiting", !.sid = sid,
                                               !.current_index = current_index,
                                               !.questions = questions,
                                               !.words = words]]
               /\ UNCHANGED lastCall

\* the evaluator answers the suspended coroutine of a slot (or raises)
evaluator_answers(turn, ev) ==
    /\ inflight[turn].pc = "awaiting"
    /\ inflight' = [inflight EXCEPT ![turn].pc = "ready", ![turn].ev = ev]
    /\ UNCHANGED <<session_storage, now, lastCall, initialized>>

\* second part: the coroutine resumes with the evaluator's answer and runs to
\* its return; it writes the cursor from its local current_index
submit_resume(turn) ==
    LET local == inflight[turn]
        sid == local.sid
        sd == session_storage[sid]
        analysis == analyze_response(local.ev, local.words)
        next_index == NextIndex(local.current_index)
        sd2 == [sd EXCEPT !.current_question_index = next_index]
        sd3 == _complete_interview(sd2)
        res(status, type) == [Result("submit_response", sid, status, type)
                                EXCEPT !.evaluator = local.ev.kind,
                                       !.words = local.words]
    IN /\ local.pc = "ready"
       /\ inflight' = [inflight EXCEPT ![turn] = Idle]
       /\ UNCHANGED <<now, initialized>>
       /\ IF local.ev.kind = "raise"
          THEN /\ UNCHANGED session_storage
               /\ lastCall' = res(500, "error")
          ELSE IF analysis.needs_followup /\ analysis.followup_question # "None"
          THEN /\ UNCHANGED session_storage
               /\ lastCall' = [res(200, "followup")
                                 EXCEPT !.question = local.current_index + 1,
                                        !.analysis = analysis]
          ELSE IF next_index >= Len(local.questions)
          THEN /\ session_storage' = [session_storage EXCEPT ![sid] = sd3]
               /\ lastCall' = [res(200, "interview_complete")
                                 EXCEPT !.analysis = analysis,
                                        !.summary = CompletionSummary(sd3)]
          ELSE /\ session_storage' = [session_storage EXCEPT ![sid] = sd2]
               /\ lastCall' = [res(200, "next_question")
                                 EXCEPT !.analysis = analysis,
                                        !.question = local.questions[next_index + 1]]

AlreadyEnded_never(sd) == FALSE

\* end_interview_early: session_data.get('interview_ended')
AlreadyEnded(sd) == sd.interview_ended

end_interview_early(sid) ==
    LET store == get_session(session_storage, sid)
        sd == store[sid]
        sd1 == _complete_interview(sd)
    IN /\ UNCHANGED <<now, initialized, inflight>>
       /\ IF ~sd.interview_started
          THEN /\ session_storage' = store
               /\ lastCall' = Result("end_interview_early", sid, 400, "error")
          ELSE IF AlreadyEnded(sd)
          THEN /\ session_storage' = store
               /\ lastCall' = Result("end_interview_early", sid, 200, "already_ended")
          ELSE /\ session_storage' = [store EXCEPT ![sid] = sd1]
               /\ lastCall' = [Result("end_interview_early", sid, 200, "interview_complete")
                                 EXCEPT !.summary = CompletionSummary(sd1)]

\* ---------------------------------------------------- routes/upload.py
\* outcome "ok": the file was validated, saved, parsed and analysed;
\* "reject": validation or text extraction failed (HTTP 400);
\* "raise": saving or parsing raised (HTTP 500)
upload_resume(sid, outcome) ==
    LET store == get_session(session_storage, sid)
        sd == store[sid]
        sd1 == [sd EXCEPT !.resume_data = TRUE,
                          !.skills_analysis = TRUE,
                          !.file_path = TRUE]
    IN /\ UNCHANGED <<now, initialized, inflight>>
       /\ IF outcome = "ok"
          THEN /\ session_storage' = [store EXCEPT ![sid] = sd1]
               /\ lastCall' = Result("upload_resume", sid, 200, "uploaded")
          ELSE /\ session_storage' = store
               /\ lastCall' = Result("upload_resume", sid,
                                     IF outcome = "reject" THEN 400 ELSE 500, "error")

ReadSession_resets(op, sid, status) ==
    /\ UNCHANGED <<now, initialized, inflight>>
    /\ session_storage' = [get_session(session_storage, sid)
                               EXCEPT ![sid] = create_session_storage]
    /\ lastCall' = Result(op, sid, status, IF status = 200 THEN "read" ELSE "error")

\* a handler that only reads the session it gets (or creates)
ReadSession(op, sid, status) ==
    /\ UNCHANGED <<now, initialized, inflight>>
    /\ session_storage' = get_session(session_storage, sid)
    /\ lastCall' = Result(op, sid, status, IF status = 200 THEN "read" ELSE "error")

\* session_data.get('skills_analysis', {}).get('skills', []) raises on None
get_upload_status(sid) ==
    LET sd == get_session(session_storage, sid)[sid]
    IN ReadSession("get_upload_status", sid, IF sd.skills_analysis THEN 200 ELSE 500)

\* removed: whether os.remove of the uploaded file succeeds
clear_upload(sid, removed) ==
    LET store == get_session(session_storage, sid)
        sd == store[sid]
    IN /\ UNCHANGED <<now, initialized, inflight>>
       /\ IF sd.file_path /\ ~removed
          THEN /\ session_storage' = store
               /\ lastCall' = Result("clear_upload", sid, 500, "error")
          ELSE /\ session_storage' = [store EXCEPT ![sid] = create_session_storage]
               /\ lastCall' = Result("clear_upload", sid, 200, "cleared")

\* -------------------------------------------------- routes/analysis.py
get_skills_analysis(sid) ==
    LET sd == get_session(session_storage, sid)[sid]
    IN ReadSession("get_skills_analysis", sid, IF sd.skills_analysis THEN 200 ELSE 404)

\* the new analysis replaces the old one (AI result or the fallback analysis)
reanalyze_skills(sid) ==
    LET store == get_session(session_storage, sid)
        sd == store[sid]
    IN /\ UNCHANGED <<now, initialized, inflight>>
       /\ IF ~sd.resume_data
          THEN /\ session_storage' = store
               /\ lastCall' = Result("reanalyze_skills", sid, 404, "error")
          ELSE /\ session_storage' = [store EXCEPT ![sid].skills_analysis = TRUE]
               /\ lastCall' = Result("reanalyze_skills", sid, 200, "reanalyzed")

get_analysis_summary(sid) ==
    LET sd == get_session(session_storage, sid)[sid]
    IN ReadSession("get_analysis_summary", sid, IF sd.skills_analysis THEN 200 ELSE 404)

\* found: whether the requested skill is among the analysed skills
get_skill_details(sid, found) ==
    LET sd == get_session(session_storage, sid)[sid]
    IN ReadSession("get_skill_details", sid,
                   IF sd.skills_analysis /\ found THEN 200 ELSE 404)

\* ---------------------------------------------- core/report_generator.py
\* double arithmetic (round to nearest, ties to even) on Dbl values, in units
\* of 2^-54 / 5, where tenths / 10 is tenths * 2^53 units
Pow2(n) == IF n = 0 THEN 1 ELSE IF n = 1 THEN 2 ELSE IF n = 2 THEN 4
           ELSE IF n = 3 THEN 8 ELSE IF n = 4 THEN 16 ELSE IF n = 5 THEN 32
           ELSE IF n = 6 THEN 64 ELSE 128

\* 2^n modulo 5
Pow2Mod5(n) == <<1, 2, 4, 3>>[(n % 4) + 1]

\* the binade [2^(m-2), 2^(m-1)) the value lies in
Binade(tenths, err) ==
    CHOOSE m \in 0..6 :
        /\ 4 * tenths > 10 * Pow2(m) \/ (4 * tenths = 10 * Pow2(m) /\ err >= 0)
        /\ ~(4 * tenths > 10 * Pow2(m + 1)
              \/ (4 * tenths = 10 * Pow2(m + 1) /\ err >= 0))

\* the value modulo 5 * 2^j units
UnitsMod(tenths, err, j) ==
    (Pow2(j) * ((tenths * Pow2Mod5(53 - j)) % 5) + err) % (5 * Pow2(j))

\* the double nearest to tenths / 10 + err units: one ulp of binade m is
\* 5 * 2^m units
RoundDbl(tenths, err) ==
    LET m == Binade(tenths, err)
        ulp == 5 * Pow2(m)
        r == UnitsMod(tenths, err, m)
        down == Dbl(tenths, err - r)
        up == Dbl(tenths, err + ulp - r)
    IN IF 2 * r < ulp THEN down
       ELSE IF 2 * r > ulp THEN up
       ELSE IF UnitsMod(tenths, err, m + 1) = r THEN down ELSE up

\* int * float and float + float
MulDbl(k, d) == RoundDbl(k * d.tenths, k * d.err)
AddDbl(a, b) == RoundDbl(a.tenths + b.tenths, a.err + b.err)

\* d >= tenths / 10, for a bound that is itself a double (8.5, 7.5, 6.5, 5.5)
GeqDbl(d, tenths) == d.tenths > tenths \/ (d.tenths = tenths /\ d.err >= 0)

technical_weight_half == RoundDbl(5, 0)

\* the literals 0.4, 0.3 and 0.3
technical_weight == RoundDbl(4, 0)
communication_weight == RoundDbl(3, 0)
problem_solving_weight == RoundDbl(3, 0)

\* ReportGenerator._calculate_overall_score; numerical_score is
\* round(overall_score, 1) in tenths
_calculate_overall_score(technical_score, communication_score, problem_solving_score) ==
    LET overall_score ==
            AddDbl(AddDbl(MulDbl(technical_score, technical_weight),
                          MulDbl(communication_score, communication_weight)),
                   MulDbl(problem_solving_score, problem_solving_weight))
        grade == IF GeqDbl(overall_score, 85) THEN "A"
                 ELSE IF GeqDbl(overall_score, 75) THEN "B"
                 ELSE IF GeqDbl(overall_score, 65) THEN "C"
                 ELSE IF GeqDbl(overall_score, 55) THEN "D"
                 ELSE "F"
        level == IF grade = "A" THEN "Excellent"
                 ELSE IF grade = "B" THEN "Good"
                 ELSE IF grade = "C" THEN "Satisfactory"
                 ELSE IF grade = "D" THEN "Below Average"
                 ELSE "Poor"
    IN [numerical_score |-> overall_score.tenths,
        grade |-> grade,
        performance_level |-> level,
        score_breakdown |-> [technical |-> technical_score,
                             communication |-> communication_score,
                             problem_solving |-> problem_solving_score]]

\* integer dimension scores of an analysis
Scores == 1..10

calculate_overall_score(t, c, p) ==
    /\ UNCHANGED <<session_storage, now, initialized, inflight>>
    /\ lastCall' = [Result("_calculate_overall_score", "none", 200, "score")
                      EXCEPT !.score = _calculate_overall_score(t, c, p)]

\* ---------------------------------------------------- routes/report.py
\* ReportGenerator.create_report calls self._generate_summary_summary, which
\* the class does not define: it raises on every call, so no report is stored
create_report_raises == TRUE

NotCompleted_never(sd) == FALSE

\* generate_interview_report: not session_data.get('interview_ended')
NotCompleted(sd) == ~sd.interview_ended

generate_interview_report(sid) ==
    LET store == get_session(session_storage, sid)
        sd == store[sid]
    IN /\ UNCHANGED <<now, initialized, inflight>>
       /\ IF NotCompleted(sd) \/ sd.responses = <<>>
          THEN /\ session_storage' = store
               /\ lastCall' = Result("generate_interview_report", sid, 400, "error")
          ELSE IF create_report_raises
          THEN /\ session_storage' = store
               /\ lastCall' = Result("generate_interview_report", sid, 500, "error")
          ELSE /\ session_storage' = [store EXCEPT ![sid].report = TRUE,
                                                   ![sid].report_generated_at = now]
               /\ lastCall' = Result("generate_interview_report", sid, 200, "report")

get_interview_report(sid) ==
    LET sd == get_session(session_storage, sid)[sid]
    IN ReadSession("get_interview_report", sid, IF sd.report THEN 200 ELSE 404)

get_report_summary(sid) ==
    LET sd == get_session(session_storage, sid)[sid]
    IN ReadSession("get_report_summary", sid, IF sd.report THEN 200 ELSE 404)

\* exported: whether export_to_pdf succeeds
export_report_pdf(sid, exported) ==
    LET sd == get_session(session_storage, sid)[sid]
    IN ReadSession("export_report_pdf", sid,
                   IF ~sd.report THEN 404 ELSE IF exported THEN 200 ELSE 500)

get_detailed_feedback(sid) ==
    LET sd == get_session(session_storage, sid)[sid]
    IN ReadSession("get_detailed_feedback", sid, IF sd.report THEN 200 ELSE 404)

clear_report(sid) ==
    LET store == get_session(session_storage, sid)
    IN /\ UNCHANGED <<now, initialized, inflight>>
       /\ session_storage' = [store EXCEPT ![sid].report = FALSE,
                                           ![sid].report_generated_at = None]
       /\ lastCall' = Result("clear_report", sid, 200, "cleared")

get_interview_status(sid) == ReadSession("get_interview_status", sid, 200)

Next ==
    \/ Tick
    \/ \E sid \in SessionIds, outcome \in {"ok", "reject", "raise"} :
          upload_resume(sid, outcome)
    \/ \E sid \in SessionIds : get_upload_status(sid)
    \/ \E sid \in SessionIds, removed \in BOOLEAN : clear_upload(sid, removed)
    \/ \E sid \in SessionIds : get_skills_analysis(sid)
    \/ \E sid \in SessionIds : reanalyze_skills(sid)
    \/ \E sid \in SessionIds : get_analysis_summary(sid)
    \/ \E sid \in SessionIds, found \in BOOLEAN : get_skill_details(sid, found)
    \/ \E sid \in SessionIds : generate_interview_report(sid)
    \/ \E sid \in SessionIds : get_interview_report(sid)
    \/ \E sid \in SessionIds : get_report_summary(sid)
    \/ \E sid \in SessionIds, exported \in BOOLEAN : export_report_pdf(sid, exported)
    \/ \E sid \in SessionIds : get_detailed_feedback(sid)
    \/ \E sid \in SessionIds : clear_report(sid)
    \/ \E sid \in SessionIds : get_interview_status(sid)
    \/ \E sid \in SessionIds, prefs \in Preferences, gen \in {"ok", "raise"},
          n \in 1..MaxQuestions, greeting \in {"ai", "generic"} :
          start_interview(sid, prefs, gen, n, greeting)
    \/ \E sid \in SessionIds : proceed_with_interview(sid)
    \/ \E sid \in SessionIds, words \in SubmittedWordCounts, ev \in EvaluatorOutcomes :
          submit_response(sid, words, ev)
    \/ \E sid \in SessionIds : end_interview_early(sid)

Spec == Init /\ [][Next]_vars

\* the engine-level operations, applied to every input
NextEngine ==
    \/ \E words \in WordCounts, ev \in EvaluatorOutcomes, dec \in DecisionOutcomes :
          process_response(words, ev, dec)
    \/ \E plan \in PlanOutcomes, gen \in {"ai", "fallback", "raise"},
          greeting \in {"ai", "generic"} :
          initialize_interview(plan, gen, greeting)
    \/ \E outcome \in {"adapted", "raise"}, remaining \in RemainingQuestions :
          adapt_remaining(outcome, remaining)
    \/ \E current_index \in 0..3, k \in 0..3, scores \in ScoreHistories,
          adapted \in {"adapted", "raise"}, dynamic \in {"generated", "raise"} :
          get_next_question(current_index, SubSeq(base_questions, 1, k), scores,
                            adapted, dynamic)

SpecEngine == Init /\ [][NextEngine]_vars

\* the scenario of a full interview without follow-ups: the question source
\* returns exactly MIN_QUESTIONS questions and every evaluation comes back
\* with needs_followup = false
NoFollowupOutcomes ==
    {ev \in EvaluatorOutcomes : ev.kind # "raise" /\ ~ev.needs_followup}

NextScenario ==
    \/ \E sid \in SessionIds : upload_resume(sid, "ok")
    \/ \E sid \in SessionIds, prefs \in Preferences, greeting \in {"ai", "generic"} :
          start_interview(sid, prefs, "ok", MIN_QUESTIONS, greeting)
    \/ \E sid \in SessionIds : proceed_with_interview(sid)
    \/ \E sid \in SessionIds, words \in SubmittedWordCounts, ev \in NoFollowupOutcomes :
          submit_response_upto(MIN_QUESTIONS, sid, words, ev)

SpecScenario == Init /\ [][NextScenario]_vars

\* two submit_response requests served by one event loop: a coroutine gives
\* up control only at its await of the evaluator; the loop resumes a
\* coroutine whose evaluation has arrived (weak fairness), while nothing
\* makes the evaluator answer
NextTurns ==
    \/ \E sid \in SessionIds : upload_resume(sid, "ok")
    \/ \E sid \in SessionIds, prefs \in Preferences, greeting \in {"ai", "generic"} :
          start_interview(sid, prefs, "ok", MaxQuestions, greeting)
    \/ \E turn \in Turns, sid \in SessionIds, words \in SubmittedWordCounts :
          submit_begin(turn, sid, words)
    \/ \E turn \in Turns, ev \in NoFollowupOutcomes : evaluator_answers(turn, ev)
    \/ \E turn \in Turns : submit_resume(turn)

SpecTurns ==
    Init /\ [][NextTurns]_vars /\ WF_vars(\E turn \in Turns : submit_resume(turn))

\* a submit_response suspended at its await of the evaluator while the same
\* event loop serves POST /end-interview for the session and the clock moves
NextEndRace ==
    \/ \E sid \in SessionIds : upload_resume(sid, "ok")
    \/ \E sid \in SessionIds, greeting \in {"ai", "generic"} :
          start_interview(sid, "default", "ok", MaxQuestions, greeting)
    \/ \E sid \in SessionIds, words \in SubmittedWordCounts :
          submit_begin("t1", sid, words)
    \/ \E ev \in NoFollowupOutcomes : evaluator_answers("t1", ev)
    \/ submit_resume("t1")
    \/ \E sid \in SessionIds : end_interview_early(sid)
    \/ Tick

SpecEndRace == Init /\ [][NextEndRace]_vars

\* two clients, each with a session id of its own, using the interview and
\* upload routes in any order
SessionPair == {"s1", "s2"}

NextIsolation ==
    \/ \E sid \in SessionPair : upload_resume(sid, "ok")
    \/ \E sid \in SessionPair : clear_upload(sid, TRUE)
    \/ \E sid \in SessionPair :
          start_interview(sid, "default", "ok", MaxQuestions, "ai")
    \/ \E sid \in SessionPair : proceed_with_interview(sid)
    \/ \E sid \in SessionPair, ev \in {e \in EvaluatorOutcomes : e.kind = "fallback"} :
          submit_response(sid, 21, ev)
    \/ \E sid \in SessionPair : end_interview_early(sid)

SpecIsolation == Init /\ [][NextIsolation]_vars

\* interviews with every kind of evaluation, and the progress and status
\* queries applied to the sessions they produce
NextProgress ==
    \/ \E sid \in SessionIds : upload_resume(sid, "ok")
    \/ \E sid \in SessionIds, n \in 1..MaxQuestions :
          start_interview(sid, "default", "ok", n, "ai")
    \/ \E sid \in SessionIds, ev \in EvaluatorOutcomes : submit_response(sid, 21, ev)
    \/ \E sid \in SessionIds : end_interview_early(sid)
    \/ \E sid \in SessionIds : get_interview_status(sid)
    \/ \E sid \in SessionIds : calculate_progress(sid)

SpecProgress == Init /\ [][NextProgress]_vars

\* the overall score of every analysis with integer dimension scores
NextReport ==
    \E t \in Scores, c \in Scores, p \in Scores : calculate_overall_score(t, c, p)

SpecReport == Init /\ [][NextReport]_vars

\* ================================================================ claims
Stored == DOMAIN session_storage

\* the step is a call of the handler op for session s (Tick is the only
\* action that changes the clock, and every handler records its name)
HandlerStep(op, s) ==
    /\ now' = now
    /\ lastCall'.op = op
    /\ lastCall'.sid = s

\* the step is an accepted submit_response of session s: it stored a response
SubmitStored(s) ==
    /\ HandlerStep("submit_response", s)
    /\ s \in Stored
    /\ Len(session_storage'[s].responses) = Len(session_storage[s].responses) + 1

\* C1: in every reachable state the number of stored responses of a session
\* is at most its cursor: len(responses) <= current_question_index.
C1_ResponsesAtMostCursor ==
    \A s \in Stored :
        Len(session_storage[s].responses) <= session_storage[s].current_question_index

\* C2 (as stated): the cursor of a session never decreases from one call to
\* the next, whatever operation is applied to the session id.
C2_CursorNeverDecreases ==
    [][\A s \in Stored :
          session_storage'[s].current_question_index
              >= session_storage[s].current_question_index]_vars

\* C2 (amended): the cursor of a session never decreases from one call to the
\* next, except that a successful clear_upload resets it to 0.
C2_CursorNeverDecreasesUnlessCleared ==
    [][\A s \in Stored :
          \/ session_storage'[s].current_question_index
                 >= session_storage[s].current_question_index
          \/ /\ HandlerStep("clear_upload", s)
             /\ lastCall'.status = 200
             /\ session_storage'[s].current_question_index = 0]_vars

C2_Witness ==
    \E s \in Stored :
        /\ lastCall.op = "submit_response"
        /\ lastCall.type = "next_question"
        /\ session_storage[s].current_question_index >= 1

\* C3: in every reachable state a session is ended (interview_ended) if and
\* only if its end_time is set.
C3_EndedIffEndTime ==
    \A s \in Stored :
        session_storage[s].interview_ended <=> session_storage[s].end_time # None

C3_Witness ==
    \E s \in Stored :
        /\ session_storage[s].interview_ended
        /\ session_storage[s].end_time # None
        /\ lastCall.type = "interview_complete"

\* C4: in every reachable state the cursor never exceeds the length of the
\* question queue: current_question_index <= len(questions).
C4_CursorWithinQueue ==
    \A s \in Stored :
        session_storage[s].current_question_index <= Len(session_storage[s].questions)

C4_Witness ==
    \E s \in Stored :
        /\ Len(session_storage[s].questions) >= 2
        /\ session_storage[s].current_question_index = Len(session_storage[s].questions)
        /\ lastCall.op = "submit_response"

\* what Completed protects: the ended flag, cursor, queue, responses, end_time
Frozen(s) ==
    /\ session_storage'[s].interview_ended
    /\ session_storage'[s].current_question_index = session_storage[s].current_question_index
    /\ session_storage'[s].questions = session_storage[s].questions
    /\ session_storage'[s].responses = session_storage[s].responses
    /\ session_storage'[s].end_time = session_storage[s].end_time

\* C5 (as stated): Completed is terminal: once a session has ended, no
\* operation on its session id makes it non-ended again or changes its
\* cursor, question queue, responses or end_time.
C5_CompletedTerminal ==
    [][\A s \in Stored : session_storage[s].interview_ended => Frozen(s)]_vars

\* C5 (amended): once a session has ended, no operation on its session id
\* other than a successful clear_upload makes it non-ended again or changes
\* its cursor, question queue, responses or end_time; a successful
\* clear_upload replaces the session by a fresh, not-started one.
C5_CompletedTerminalUnlessCleared ==
    [][\A s \in Stored :
          session_storage[s].interview_ended =>
              \/ Frozen(s)
              \/ /\ HandlerStep("clear_upload", s)
                 /\ lastCall'.status = 200
                 /\ session_storage'[s] = create_session_storage]_vars

\* an operation was applied to a session that had ended, at a later time
C5_Witness ==
    \E s \in Stored :
        /\ session_storage[s].interview_ended
        /\ session_storage[s].end_time < now
        /\ lastCall.sid = s
        /\ lastCall.op \in {"submit_response", "start_interview", "end_interview_early"}
        /\ lastCall.type \in {"error", "already_ended"}

\* C6: after submit_response has returned followup for a question, the next
\* submit_response of that session does not return followup again for the
\* same question.
C6_AtMostOneFollowup ==
    [][\A s \in Stored :
          /\ lastCall.op = "submit_response"
          /\ lastCall.sid = s
          /\ lastCall.type = "followup"
          /\ SubmitStored(s)
          => ~(lastCall'.type = "followup" /\ lastCall'.question = lastCall.question)]_vars

\* C7: when submit_response decides on a follow-up, the queue grows by
\* exactly one entry, the entries up to the current position are unchanged,
\* and the entry after the current position is the one presented next.
C7_FollowupInserted ==
    [][\A s \in Stored :
          SubmitStored(s) /\ lastCall'.type = "followup" =>
              LET old == session_storage[s].questions
                  new == session_storage'[s].questions
                  cur == session_storage[s].current_question_index
              IN /\ Len(new) = Len(old) + 1
                 /\ \A i \in 1..(cur + 1) : new[i] = old[i]]_vars

\* C8: when the evaluator fails, submit_response on an in-progress session
\* still returns one of followup, next_question, complete and never an error.
C8_EvaluatorFailureAbsorbed ==
    (lastCall.op = "submit_response" /\ lastCall.evaluator \in {"fallback", "raise"})
        => /\ lastCall.status = 200
           /\ lastCall.type \in {"followup", "next_question", "interview_complete"}

\* C9: whenever the evaluator fails, the evaluation acted on is the
\* deterministic fallback: score 6 for more than 20 words, else 4, with
\* needs_followup = false, on the AI service path and on the engine path.
C9_FallbackEvaluation ==
    (lastCall.op = "process_response" /\ lastCall.evaluator \in {"fallback", "raise"})
        => /\ lastCall.analysis.score = (IF lastCall.words > 20 THEN 6 ELSE 4)
           /\ lastCall.analysis.needs_followup = FALSE

\* the session of s is unknown, not started, or ended
Inactive(s) ==
    \/ s \notin Stored
    \/ ~session_storage[s].interview_started
    \/ session_storage[s].interview_ended

InProgress(sd) == sd.interview_started /\ ~sd.interview_ended

\* C11: a submit_response whose text is empty after trimming (0 words) on an
\* in-progress session is rejected with an error, appends no response record
\* and leaves the cursor unchanged.
C11_EmptyResponseRejected ==
    [][\A s \in Stored :
          /\ HandlerStep("submit_response", s)
          /\ InProgress(session_storage[s])
          /\ lastCall'.words = 0
          => /\ lastCall'.status = 400
             /\ session_storage'[s].responses = session_storage[s].responses
             /\ session_storage'[s].current_question_index
                    = session_storage[s].current_question_index]_vars

\* C12: a submit_response that directly follows a successful start_interview,
\* with no proceed in between, is rejected and records nothing; a successful
\* proceed returns the question at the cursor and leaves the session as it was.
C12_SubmitBeforeProceedRejected ==
    [][\A s \in Stored :
          /\ ( /\ lastCall.op = "start_interview"
               /\ lastCall.sid = s
               /\ lastCall.status = 200
               /\ HandlerStep("submit_response", s)
               => /\ lastCall'.status = 400
                  /\ session_storage'[s].responses = session_storage[s].responses )
          /\ ( /\ HandlerStep("proceed_with_interview", s)
               /\ lastCall'.status = 200
               => /\ lastCall'.question
                        = session_storage[s].questions[
                              session_storage[s].current_question_index + 1]
                  /\ session_storage'[s] = session_storage[s] )]_vars

\* C13: in a session started with exactly MIN_QUESTIONS questions where no
\* evaluation asks for a follow-up, proceed at cursor 0 returns question 1,
\* the k-th accepted submit_response returns next_question with question k+1
\* while k < MIN_QUESTIONS, and the MIN_QUESTIONS-th returns interview_complete
\* and leaves the session ended with end_time set and exactly MIN_QUESTIONS
\* responses; no submit_response is rejected while the interview is in progress.
C13_FullInterviewScenario ==
    \A s \in Stored :
        LET sd == session_storage[s]
            k == Len(sd.responses)
        IN /\ sd.interview_started => Len(sd.questions) = MIN_QUESTIONS
           /\ ( /\ lastCall.op = "proceed_with_interview"
                /\ lastCall.status = 200
                /\ sd.current_question_index = 0
                => lastCall.question = sd.questions[1] )
           /\ ( lastCall.op = "submit_response" /\ lastCall.status = 200
                => IF k < MIN_QUESTIONS
                   THEN /\ lastCall.type = "next_question"
                        /\ lastCall.question = sd.questions[k + 1]
                        /\ ~sd.interview_ended
                        /\ sd.end_time = None
                   ELSE /\ k = MIN_QUESTIONS
                        /\ lastCall.type = "interview_complete"
                        /\ sd.interview_ended
                        /\ sd.end_time # None )
           /\ ( lastCall.op = "submit_response" /\ lastCall.status # 200
                => /\ lastCall.status = 400
                   /\ ~InProgress(sd) )

\* the fifth response of a five-question interview completed it
C13_Witness ==
    \E s \in Stored :
        /\ lastCall.op = "submit_response"
        /\ lastCall.type = "interview_complete"
        /\ Len(session_storage[s].questions) = MIN_QUESTIONS
        /\ Len(session_storage[s].responses) = MIN_QUESTIONS
        /\ session_storage[s].interview_ended
        /\ session_storage[s].end_time # None

\* C14: when the initial question generation fails outright, initialization
\* (start_interview / initialize_interview) still succeeds: it returns
\* without an error, with at least 3 fallback questions and a greeting.
C14_GenerationFailureStillInitializes ==
    /\ lastCall.op \in {"start_interview", "initialize_interview"}
    /\ lastCall.generation \in {"fallback", "raise"}
    => /\ lastCall.status = 200
       /\ Len(lastCall.questions) >= 3
       /\ \A i \in 1..Len(lastCall.questions) :
              lastCall.questions[i].source \in {"fallback", "emergency"}
       /\ lastCall.greeting # "None"

\* C15: the number of questions in the initial queue produced by a successful
\* initialization is within [MIN_QUESTIONS, MAX_QUESTIONS], for every question
\* count a plan can request, on the AI path and on the fallback path.
C15_InitialQueueWithinBounds ==
    lastCall.op = "initialize_interview" /\ lastCall.status = 200
    => /\ Len(lastCall.questions) >= MIN_QUESTIONS
       /\ Len(lastCall.questions) <= MAX_QUESTIONS

\* C16: where a dynamically generated next question is always available, a
\* submit_response that reaches the end of the queue with fewer than
\* MIN_QUESTIONS responses recorded continues with next_question: the
\* interview never completes by queue exhaustion below MIN_QUESTIONS responses.
C16_NoCompletionBelowMinimum ==
    \A s \in Stored :
        /\ lastCall.op = "submit_response"
        /\ lastCall.sid = s
        /\ lastCall.type = "interview_complete"
        => Len(session_storage[s].responses) >= MIN_QUESTIONS

\* C17: end_interview_early on a session that has already ended leaves the
\* whole session record (end_time, cursor, question queue, responses and every
\* other field) exactly as it was.
C17_EndNowIdempotent ==
    [][\A s \in Stored :
          /\ HandlerStep("end_interview_early", s)
          /\ session_storage[s].interview_ended
          => session_storage'[s] = session_storage[s]]_vars

\* end_interview_early was called on a session that ended at an earlier time
C17_Witness ==
    \E s \in Stored :
        /\ lastCall.op = "end_interview_early"
        /\ lastCall.sid = s
        /\ lastCall.type = "already_ended"
        /\ session_storage[s].interview_ended
        /\ session_storage[s].end_time < now

\* C18: end_interview_early on a session that has already ended returns the
\* completion summary (questions answered, duration, completion time) of the
\* completed interview, the one the completing call returned.
C18_SecondEndReturnsSummary ==
    [][\A s \in Stored :
          /\ HandlerStep("end_interview_early", s)
          /\ session_storage[s].interview_ended
          => /\ lastCall'.status = 200
             /\ lastCall'.summary = CompletionSummary(session_storage[s])]_vars

SecondStartRejected(s) ==
    HandlerStep("start_interview", s) /\ session_storage[s].interview_started
    => /\ lastCall'.status = 400
       /\ session_storage'[s] = session_storage[s]

\* the session record holds no trace of an interview
Fresh(sd) ==
    /\ ~sd.interview_started
    /\ ~sd.interview_ended
    /\ sd.questions = <<>>
    /\ sd.responses = <<>>
    /\ sd.current_question_index = 0
    /\ sd.start_time = None
    /\ sd.end_time = None

C21_TurnsNeverInterleave ==
    \A s \in Stored :
        \A i, j \in 1..Len(session_storage[s].responses) :
            i # j => session_storage[s].responses[i].question_number
                         # session_storage[s].responses[j].question_number

\* C22: every submit_response turn that is waiting for its evaluation
\* eventually returns.
C22_TurnEventuallyReturns ==
    \A turn \in Turns :
        (inflight[turn].pc = "awaiting") ~> (inflight[turn].pc = "idle")

\* C23: sessions are isolated: a call made with one session id leaves the
\* stored record of every other session id unchanged and in the store, and
\* get_session of a stored id returns the stored record and changes nothing,
\* however often it is called.
C23_SessionsIsolated ==
    [][\A a \in SessionPair :
          /\ lastCall'.sid = a
               => \A b \in Stored \ {a} :
                      /\ b \in DOMAIN session_storage'
                      /\ session_storage'[b] = session_storage[b]
          /\ a \in Stored
               => /\ get_session(session_storage, a) = session_storage
                  /\ get_session(get_session(session_storage, a), a)
                         = session_storage]_vars

\* one session has ended while the other, still in progress, has just
\* recorded a response
C23_Witness ==
    /\ Stored = SessionPair
    /\ lastCall.op = "submit_response"
    /\ lastCall.sid = "s2"
    /\ lastCall.status = 200
    /\ session_storage["s1"].interview_ended
    /\ ~session_storage["s2"].interview_ended
    /\ session_storage["s2"].responses # <<>>

\* C24: the progress computed for a session has completion_percentage equal
\* to responses / questions * 100, equal to 0 when the session has no
\* questions and to 100 when it has as many responses as (one or more)
\* questions, and questions_remaining equal to max(0, questions - responses).
C24_ProgressFormula ==
    \A s \in Stored :
        lastCall.op = "_calculate_progress" /\ lastCall.sid = s =>
            LET total == Len(session_storage[s].questions)
                answered == Len(session_storage[s].responses)
                p == lastCall.progress
                pct == p.completion_percentage
            IN /\ p.total_questions = total
               /\ p.questions_answered = answered
               /\ pct.den > 0
               /\ total > 0 => pct.num * total = answered * 100 * pct.den
               /\ total = 0 => pct.num = 0
               /\ total > 0 /\ answered = total => pct.num = 100 * pct.den
               /\ p.questions_remaining >= 0
               /\ p.questions_remaining >= total - answered
               /\ p.questions_remaining \in {0, total - answered}

\* the progress of a session that holds more responses than questions (a
\* follow-up was answered): nothing remains
C24_Witness ==
    \E s \in Stored :
        /\ lastCall.op = "_calculate_progress"
        /\ lastCall.sid = s
        /\ Len(session_storage[s].responses) > Len(session_storage[s].questions)
        /\ Len(session_storage[s].questions) > 0
        /\ lastCall.progress.questions_remaining = 0

\* the step computes the progress of session s or reads its interview status
QueryStep(s) ==
    \/ HandlerStep("_calculate_progress", s)
    \/ HandlerStep("get_interview_status", s)

\* C25 (as stated): computing the progress or reading the interview status
\* of any session id, known or unknown, changes no session and leaves the
\* set of sessions in the store as it was.
C25_QueriesPure ==
    [][\A s \in SessionIds : QueryStep(s) => session_storage' = session_storage]_vars

\* C25 (amended): computing the progress or reading the interview status
\* changes no stored session; reading the status of an id that is not in the
\* store adds a fresh, not-started session record for it, and nothing else
\* enters the store.
C25_QueriesOnlyCreate ==
    [][\A s \in SessionIds :
          QueryStep(s) =>
              /\ \A t \in Stored : session_storage'[t] = session_storage[t]
              /\ DOMAIN session_storage' = Stored \cup {s}
              /\ s \notin Stored => /\ lastCall'.op = "get_interview_status"
                                    /\ session_storage'[s] = create_session_storage
              /\ HandlerStep("_calculate_progress", s)
                     => session_storage' = session_storage]_vars

\* the status of an interview in progress, with a response recorded, was read
C25_Witness ==
    \E s \in Stored :
        /\ lastCall.op = "get_interview_status"
        /\ lastCall.sid = s
        /\ InProgress(session_storage[s])
        /\ session_storage[s].responses # <<>>

\* the last call computed the overall score of the dimension scores t, c, p
ScoredAs(t, c, p) ==
    /\ lastCall.op = "_calculate_overall_score"
    /\ lastCall.score.score_breakdown
           = [technical |-> t, communication |-> c, problem_solving |-> p]

\* C26 (as stated): technical 8, communication 6, problem solving 7 give the
\* overall score 7.1, the grade B and the performance level Good.
C26_ExampleGradeB ==
    ScoredAs(8, 6, 7) =>
        /\ lastCall.score.numerical_score = 71
        /\ lastCall.score.grade = "B"
        /\ lastCall.score.performance_level = "Good"

\* C26 (amended): technical 8, communication 6, problem solving 7 give the
\* overall score 7.1, the grade C and the performance level Satisfactory.
C26_ExampleGradeC ==
    ScoredAs(8, 6, 7) =>
        /\ lastCall.score.numerical_score = 71
        /\ lastCall.score.grade = "C"
        /\ lastCall.score.performance_level = "Satisfactory"

C26_Witness == ScoredAs(8, 6, 7)

\* the grade and level the thresholds give to an overall score in tenths
GradeOf(x) ==
    IF x >= 85 THEN <<"A", "Excellent">>
    ELSE IF x >= 75 THEN <<"B", "Good">>
    ELSE IF x >= 65 THEN <<"C", "Satisfactory">>
    ELSE IF x >= 55 THEN <<"D", "Below Average">>
    ELSE <<"F", "Poor">>

GradeRank(g) ==
    IF g = "A" THEN 5 ELSE IF g = "B" THEN 4 ELSE IF g = "C" THEN 3
    ELSE IF g = "D" THEN 2 ELSE 1

\* C27: for all integer dimension scores in 1..10 the overall score is
\* (4t + 3c + 3p) / 10, the grade and level are the ones the thresholds 8.5,
\* 7.5, 6.5, 5.5 give to that score, and a higher overall score never gets a
\* worse grade.
C27_GradeThresholds ==
    \A t \in Scores, c \in Scores, p \in Scores :
        ScoredAs(t, c, p) =>
            LET x == 4 * t + 3 * c + 3 * p
            IN /\ lastCall.score.numerical_score = x
               /\ <<lastCall.score.grade, lastCall.score.performance_level>> = GradeOf(x)
               /\ \A t2 \in Scores, c2 \in Scores, p2 \in Scores :
                      4 * t2 + 3 * c2 + 3 * p2 > x =>
                          GradeRank(_calculate_overall_score(t2, c2, p2).grade)
                              >= GradeRank(lastCall.score.grade)

\* C28: generate_interview_report on an ended session, whatever the number
\* of its responses, never fails: it returns a report and stores it.
C28_ReportNeverFails ==
    \A s \in Stored :
        /\ lastCall.op = "generate_interview_report"
        /\ lastCall.sid = s
        /\ session_storage[s].interview_ended
        => /\ lastCall.status = 200
           /\ session_storage[s].report

\* C29: generate_interview_report on a session that has not ended is
\* rejected with an error and leaves the session as it was, without a report;
\* after every step a session that holds a report has ended.
C29_ReportOnlyWhenCompleted ==
    [][\A s \in SessionIds :
          /\ HandlerStep("generate_interview_report", s)
               /\ ~get_session(session_storage, s)[s].interview_ended
               => /\ lastCall'.status = 400
                  /\ session_storage'[s] = get_session(session_storage, s)[s]
                  /\ ~session_storage'[s].report
          /\ s \in DOMAIN session_storage' /\ session_storage'[s].report
               => session_storage'[s].interview_ended]_vars

\* a report was asked for, and refused, in the middle of an interview
C29_Witness ==
    \E s \in Stored :
        /\ lastCall.op = "generate_interview_report"
        /\ lastCall.sid = s
        /\ lastCall.status = 400
        /\ InProgress(session_storage[s])
        /\ session_storage[s].responses # <<>>
        /\ ~session_storage[s].report

\* C30: adapt_question_difficulty always returns (it never raises) a sequence
\* as long as its remaining_questions input, and returns the input itself
\* when the adaptation call fails.
C30_AdaptKeepsLength ==
    lastCall.op = "adapt_question_difficulty" =>
        /\ lastCall.status = 200
        /\ Len(lastCall.questions) = Len(lastCall.input)
        /\ lastCall.generation = "raise" => lastCall.questions = lastCall.input

\* the adaptation call failed on a list of three remaining questions
C30_Witness ==
    /\ lastCall.op = "adapt_question_difficulty"
    /\ lastCall.generation = "raise"
    /\ Len(lastCall.input) = 3
    /\ lastCall.questions = lastCall.input

\* C31: an evaluation or a question carries the fallback marker exactly when
\* a fallback path produced it: the evaluation returned by process_response
\* when the AI evaluation or decision failed, and every question of an initial
\* queue that did not come from the AI.
C31_FallbackMarked ==
    /\ lastCall.op = "process_response"
        => ( lastCall.analysis.raw_source = "fallback"
             <=> (lastCall.evaluator # "ai" \/ lastCall.type = "engine_fallback") )
    /\ lastCall.op = "initialize_interview" /\ lastCall.status = 200
        => \A i \in 1..Len(lastCall.questions) :
               lastCall.questions[i].generated_by = "fallback"
                   <=> lastCall.questions[i].source # "ai"

\* C32: a submit_response that returns a next-step result appends exactly one
\* response record, leaves the earlier records as they were, and the record
\* it appended has its evaluation attached.
C32_EvaluationAttached ==
    [][\A s \in Stored :
          HandlerStep("submit_response", s) /\ lastCall'.status = 200 =>
              LET before == session_storage[s].responses
                  after == session_storage'[s].responses
              IN /\ Len(after) = Len(before) + 1
                 /\ SubSeq(after, 1, Len(before)) = before
                 /\ after[Len(after)].evaluation # "None"]_vars

\* C39: a submit_response call that ends in an error (any status other than
\* 200, a failed response analysis included) appends no response record and
\* does not move the cursor.
C39_FailedSubmitLeavesSession ==
    [][\A s \in Stored :
          HandlerStep("submit_response", s) /\ lastCall'.status # 200 =>
              /\ session_storage'[s].responses = session_storage[s].responses
              /\ session_storage'[s].current_question_index
                     = session_storage[s].current_question_index]_vars

\* C36: every started interview terminates within a bounded number of
\* submissions, whatever the evaluator answers: with at most one follow-up
\* per question, an interview of N questions that holds 2N responses has ended.
C36_InterviewTerminates ==
    \A s \in Stored :
        LET sd == session_storage[s]
        IN sd.interview_started /\ Len(sd.responses) >= 2 * Len(sd.questions)
               => sd.interview_ended

\* the sum of the last three scores of a history of at least three
SumLast3(scores) ==
    scores[Len(scores)] + scores[Len(scores) - 1] + scores[Len(scores) - 2]

\* the average of the last 3 evaluation scores is >= 8 or <= 4
AdaptationDue(scores) ==
    /\ Len(scores) >= 3
    /\ SumLast3(scores) >= 3 * 8 \/ SumLast3(scores) <= 3 * 4

\* C33: get_next_question asks for an adaptation only when the average of
\* the last 3 evaluation scores is >= 8 or <= 4; otherwise, while planned
\* questions remain, it returns the planned question at the cursor unmodified.
C33_AdaptationOnlyAtThreshold ==
    lastCall.op = "get_next_question" =>
        /\ lastCall.adaptation # "none" => AdaptationDue(lastCall.scores)
        /\ lastCall.current_index < Len(lastCall.input)
               /\ ~AdaptationDue(lastCall.scores)
               => lastCall.returned = lastCall.input[lastCall.current_index + 1]

\* C34: when planned questions remain and the adaptation call fails,
\* get_next_question returns the planned question at the cursor unchanged,
\* never None.
C34_AdaptationFailureKeepsQuestion ==
    /\ lastCall.op = "get_next_question"
    /\ lastCall.current_index < Len(lastCall.input)
    /\ lastCall.adaptation = "failed"
    => /\ lastCall.returned # NoQuestion
       /\ lastCall.returned = lastCall.input[lastCall.current_index + 1]

\* C35: the next action returned by process_response always carries a tag
\* of the closed set next_question, followup_question, end_interview,
\* adapt_difficulty; a missing or unrecognised tag of the AI decision is
\* replaced by the fallback action next_question.
C35_ActionTagClosed ==
    lastCall.op = "process_response" =>
        /\ lastCall.action \in {"next_question", "followup_question",
                                "end_interview", "adapt_difficulty"}

\* C40: the initial question list built by the fallback generator holds no
\* question twice, for every requested count, and has exactly the requested
\* length when the count is at most the size of the base list.
C40_FallbackQuestionsDistinct ==
    /\ lastCall.op = "initialize_interview"
    /\ lastCall.status = 200
    /\ lastCall.generation = "fallback"
    => /\ \A i, j \in 1..Len(lastCall.questions) :
              i # j => lastCall.questions[i].n # lastCall.questions[j].n
       /\ lastCall.question_count <= Len(base_questions)
              => Len(lastCall.questions) = lastCall.question_count

\* C38: in every reachable state of a session, the progress the engine
\* reports has a completion_percentage between 0 and 100 inclusive, and
\* questions_answered + questions_remaining equals total_questions.
C38_ProgressWithinBounds ==
    lastCall.op = "_calculate_progress" =>
        LET p == lastCall.progress
        IN /\ p.completion_percentage.num >= 0
           /\ p.completion_percentage.num <= 100 * p.completion_percentage.den
           /\ p.questions_answered + p.questions_remaining = p.total_questions

\* C37: once a session has ended its end_time is never overwritten, also
\* when the interview is ended early while a submit_response for the last
\* question of the session awaits its evaluation; and a submit_response
\* that resumes after the session has ended leaves the cursor alone and does
\* not complete the interview again.
C37_EndTimeWrittenOnce ==
    [][\A s \in Stored :
          session_storage[s].interview_ended
              => /\ session_storage'[s].end_time = session_storage[s].end_time
                 /\ \A turn \in Turns :
                        inflight[turn].pc = "ready" /\ inflight'[turn].pc = "idle"
                            => session_storage'[s].current_question_index
                                   = session_storage[s].current_question_index]_vars

====
